---- MODULE Spec2Model ----
\* A model of the todoistAi command-line assistant (src/main.py): the three
\* task operations add_task, list_tasks and complete_task working against the
\* external Todoist store, the module-level start-up sequence, and the
\* interactive loop of main().
\*
\* Strings that the code inspects character by character (due dates, input
\* lines, stored date-times) are sequences of one-character strings.  Strings
\* that the code only builds (results, printed messages) are sequences of
\* pieces, in the order in which the f-strings and joins put them.
EXTENDS Integers, Sequences, FiniteSets, TLC

VARIABLES
    store,       \* the store's active tasks, in the order get_tasks returns them
    nextId,      \* the next identifier the store assigns
    op,          \* the last task operation: its call, fetch, outcome
    requests,    \* the store requests the last task operation made, in order
    listed,      \* the identifiers of the tasks the last listing numbered 1, 2, ...
    todoistKey,  \* Config.TODOIST_API_KEY
    geminiKey,   \* Config.GEMINI_API_KEY
    pc,          \* where the program is: start-up steps, then the loop of main()
    clients,     \* the clients constructed so far
    llmCalls,    \* the requests made to the LLM provider so far
    rawLine,     \* the line input() returned last
    user_input,  \* main(): user_input
    reads,       \* the calls of input() so far
    routerCalls, \* the calls of agent_executor.invoke so far
    printed,     \* the last message the program printed
    exc          \* the exception the last step of main()'s loop raised, "" if none

opVars == <<store, nextId, op, requests, listed>>
sessionVars == <<todoistKey, geminiKey, pc, clients, llmCalls, rawLine,
                 user_input, reads, routerCalls, printed, exc>>
vars == <<store, nextId, op, requests, listed, todoistKey, geminiKey, pc,
          clients, llmCalls, rawLine, user_input, reads, routerCalls, printed,
          exc>>

\* Python's None.
None == <<"None">>

----------------------------------------------------------------------------
\* Characters and strings

UpperAlpha == <<"A","B","C","D","E","F","G","H","I","J","K","L","M",
                "N","O","P","Q","R","S","T","U","V","W","X","Y","Z">>
LowerAlpha == <<"a","b","c","d","e","f","g","h","i","j","k","l","m",
                "n","o","p","q","r","s","t","u","v","w","x","y","z">>
Digits == <<"0","1","2","3","4","5","6","7","8","9">>
Whitespace == {" ", "\t", "\n"}

IsDigit(c) == \E i \in DOMAIN Digits : Digits[i] = c
DigitVal(c) == (CHOOSE i \in DOMAIN Digits : Digits[i] = c) - 1

\* str.lower(), one character
LowerChar(c) ==
    IF \E i \in DOMAIN UpperAlpha : UpperAlpha[i] = c
    THEN LowerAlpha[CHOOSE i \in DOMAIN UpperAlpha : UpperAlpha[i] = c]
    ELSE c

\* str.lower()
Lower(s) == [i \in DOMAIN s |-> LowerChar(s[i])]

\* str.strip(): drop the leading and the trailing whitespace
RECURSIVE LStrip(_)
LStrip(s) ==
    IF s # <<>> /\ Head(s) \in Whitespace THEN LStrip(Tail(s)) ELSE s

RECURSIVE RStrip(_)
RStrip(s) ==
    IF s # <<>> /\ s[Len(s)] \in Whitespace
    THEN RStrip(SubSeq(s, 1, Len(s) - 1))
    ELSE s

Strip(s) == RStrip(LStrip(s))

\* str.split(sep) for a one-character separator: the list of the fields
RECURSIVE Split(_, _)
Split(s, sep) ==
    IF \E i \in DOMAIN s : s[i] = sep
    THEN LET i == CHOOSE j \in DOMAIN s :
                      s[j] = sep /\ \A k \in 1..(j - 1) : s[k] # sep
         IN  <<SubSeq(s, 1, i - 1)>> \o Split(SubSeq(s, i + 1, Len(s)), sep)
    ELSE <<s>>

\* s[:n]
Prefix(s, n) == SubSeq(s, 1, IF n < Len(s) THEN n ELSE Len(s))

\* "\n".join(items), the items being sequences of pieces
RECURSIVE JoinLines(_)
JoinLines(items) ==
    IF items = <<>> THEN <<>>
    ELSE IF Len(items) = 1 THEN items[1]
    ELSE items[1] \o <<"\n">> \o JoinLines(Tail(items))

\* the literals the code compares with
StrToday == <<"t","o","d","a","y">>
StrTomorrow == <<"t","o","m","o","r","r","o","w">>
StrExit == <<"e","x","i","t">>
StrQuit == <<"q","u","i","t">>
StrBye == <<"b","y","e">>

----------------------------------------------------------------------------
\* datetime.strptime(due_date, '%d-%m-%Y')

\* the directive %d: 3[0-1] | [1-2]\d | 0[1-9] | [1-9] | " "[1-9]
MatchDay(f) ==
    \/ Len(f) = 2 /\ f[1] = "3" /\ f[2] \in {"0", "1"}
    \/ Len(f) = 2 /\ f[1] \in {"1", "2"} /\ IsDigit(f[2])
    \/ Len(f) = 2 /\ f[1] = "0" /\ IsDigit(f[2]) /\ f[2] # "0"
    \/ Len(f) = 1 /\ IsDigit(f[1]) /\ f[1] # "0"
    \/ Len(f) = 2 /\ f[1] = " " /\ IsDigit(f[2]) /\ f[2] # "0"

\* the directive %m: 1[0-2] | 0[1-9] | [1-9]
MatchMonth(f) ==
    \/ Len(f) = 2 /\ f[1] = "1" /\ f[2] \in {"0", "1", "2"}
    \/ Len(f) = 2 /\ f[1] = "0" /\ IsDigit(f[2]) /\ f[2] # "0"
    \/ Len(f) = 1 /\ IsDigit(f[1]) /\ f[1] # "0"

\* the directive %Y: \d\d\d\d
MatchYear(f) == Len(f) = 4 /\ \A i \in 1..4 : IsDigit(f[i])

\* int() of a matched field (a leading blank of %d is skipped)
RECURSIVE FieldInt(_)
FieldInt(f) ==
    IF f = <<>> THEN 0
    ELSE IF f[Len(f)] = " " THEN 0
    ELSE 10 * FieldInt(SubSeq(f, 1, Len(f) - 1)) + DigitVal(f[Len(f)])

IsLeap(y) == (y % 4 = 0 /\ y % 100 # 0) \/ y % 400 = 0

DaysInMonth(m, y) ==
    IF m = 2 THEN (IF IsLeap(y) THEN 29 ELSE 28)
    ELSE IF m \in {4, 6, 9, 11} THEN 30
    ELSE 31

\* TRUE when strptime returns, FALSE when it raises ValueError: the whole
\* string must match the format, and the fields must name a day of the calendar
StrptimeOk(s) ==
    LET f == Split(s, "-")
    IN  /\ Len(f) = 3
        /\ MatchDay(f[1])
        /\ MatchMonth(f[2])
        /\ MatchYear(f[3])
        /\ FieldInt(f[3]) >= 1
        /\ FieldInt(f[1]) <= DaysInMonth(FieldInt(f[2]), FieldInt(f[3]))

----------------------------------------------------------------------------
\* The values the model draws from

\* the number of identifiers the store assigns in a run
MaxId == 2

\* status glyphs of the result strings (the check mark and the cross)
GlyphOk == "[ok]"
GlyphFail == "[fail]"

\* task contents: those add_task is called with, those other writers use
Contents == {"Buy milk", "Call mom"}
OtherContents == {"Pay rent"}

\* what str(e) gives for the errors the store client raises
StoreErrors == {"503 Server Error"}
BadRequest == "400 Bad Request"

\* the calendar dates the store resolves a due string to (task.due.date)
StoreDates == {<<"2","0","2","5","-","1","2","-","2","5">>}

\* a stored date-time (task.due.datetime)
StoredDateTime ==
    <<"2","0","2","5","-","1","2","-","2","5","T","1","4",":","3","0",":","0","0">>

\* no Due object, and the Due objects with a time of day that other writers
\* give their tasks (add_task gives none or a date, see StoreDue)
NoDue == <<>>
Dues == {<<[date |-> d, datetime |-> StoredDateTime]>> : d \in StoreDates}

\* the due_date arguments of add_task
DateXmas == <<"2","5","-","1","2","-","2","0","2","5">>
DueDateArgs == {None, DateXmas}

\* more of them, for the resolution of the due date
DateToday == <<"t","o","d","a","y">>
DateTOMORROW == <<"T","O","M","O","R","R","O","W">>
DateTodayMixed == <<"T","o","d","a","y">>
DateTomorrow == <<"t","o","m","o","r","r","o","w">>
DateTodayPadded == <<" ","t","o","d","a","y">>
DateSpaceDay == <<" ","5","-","1","2","-","2","0","2","5">>
DateShort == <<"5","-","1","-","2","0","2","5">>
DatePadded == <<"0","5","-","0","1","-","2","0","2","5">>
DateLeapDay == <<"2","9","-","0","2","-","2","0","2","4">>
DateNoLeapDay == <<"2","9","-","0","2","-","2","0","2","5">>
DateCentury == <<"2","9","-","0","2","-","1","9","0","0">>
DateApril31 == <<"3","1","-","0","4","-","2","0","2","5">>
DateDayZero == <<"0","0","-","0","1","-","2","0","2","5">>
DateMonth13 == <<"1","-","1","3","-","2","0","2","5">>
DateDay32 == <<"3","2","-","0","1","-","2","0","2","5">>
DateTwoDigitYear == <<"2","5","-","1","2","-","2","5">>
DateYearZero == <<"2","5","-","1","2","-","0","0","0","0">>
DateTrailing == <<"2","5","-","1","2","-","2","0","2","5"," ">>
DateSlashes == <<"2","5","/","1","2","/","2","0","2","5">>
DateIso == <<"2","0","2","5","-","1","2","-","2","5">>
DateNotADate == <<"n","o","t","-","a","-","d","a","t","e">>
DateEmpty == <<>>
RawDates == DueDateArgs
            \cup {DateTOMORROW, DateToday, DateTodayMixed, DateTomorrow, DateTodayPadded,
                  DateSpaceDay, DateShort, DatePadded, DateLeapDay,
                  DateNoLeapDay, DateCentury, DateApril31, DateDayZero,
                  DateMonth13, DateDay32, DateTwoDigitYear, DateYearZero,
                  DateTrailing, DateSlashes, DateIso, DateNotADate,
                  DateEmpty}

\* the priority arguments of add_task: the store rejects those outside 1..4
PriorityArgs == {1, 5}

\* the task_id arguments of complete_task
TaskIdArgs == (0 - 1)..(MaxId + 1)

----------------------------------------------------------------------------
\* The store (the Todoist REST service behind the TodoistAPI client)

NoExc == [cls |-> "", text |-> ""]
NoTask == [id |-> 0, content |-> "", due |-> NoDue]

\* a store request as the log keeps it
Request(call, id, content, due_string, priority, resp) ==
    [call |-> call, id |-> id, content |-> content, due_string |-> due_string,
     priority |-> priority, ok |-> resp.ok, error |-> resp.error]

\* the store without the task of identifier id
RECURSIVE Without(_, _)
Without(tasks, id) ==
    IF tasks = <<>> THEN <<>>
    ELSE IF Head(tasks).id = id THEN Without(Tail(tasks), id)
    ELSE <<Head(tasks)>> \o Without(Tail(tasks), id)

\* the Due objects the store may give a new task for a due string
StoreDue(due_string) ==
    IF due_string = None THEN {NoDue}
    ELSE {<<[date |-> d, datetime |-> None]>> : d \in StoreDates}

----------------------------------------------------------------------------
\* What a call of a function does: it returns a value or raises

Return(value) == [raised |-> FALSE, exc |-> NoExc, value |-> value]
Raise(cls, text) == [raised |-> TRUE, exc |-> [cls |-> cls, text |-> text], value |-> <<>>]

\* the classes "except Exception" catches, among those the model raises
ExceptionClasses == {"Exception", "HTTPError", "EOFError"}

\* a handler that catches ValueError alone
ExceptException_ValueErrorOnly(body, message) ==
    IF body.raised /\ body.exc.cls = "ValueError"
    THEN [raised |-> FALSE, exc |-> NoExc,
          value |-> <<GlyphFail, message, body.exc.text>>]
    ELSE body

\* try: body / except Exception as e: return f"{glyph}{message}{str(e)}"
ExceptException(body, message) ==
    IF body.raised /\ body.exc.cls \in ExceptionClasses
    THEN Return(<<GlyphFail, message, body.exc.text>>)
    ELSE body

----------------------------------------------------------------------------
\* The store's answers to the three requests the program makes

\* todoist.add_task(content, due_string, priority)
AddTaskResponses(content, due_string, priority) ==
    IF priority \notin 1..4
    THEN {[ok |-> FALSE, error |-> BadRequest, task |-> NoTask]}
    ELSE {[ok |-> FALSE, error |-> e, task |-> NoTask] : e \in StoreErrors}
         \cup {[ok |-> TRUE, error |-> "",
                task |-> [id |-> nextId, content |-> content, due |-> d]] :
               d \in StoreDue(due_string)}

\* todoist.get_tasks()
GetTasksResponses ==
    {[ok |-> FALSE, error |-> e, tasks |-> <<>>] : e \in StoreErrors}
    \cup {[ok |-> TRUE, error |-> "", tasks |-> store]}

\* todoist.close_task(task_id)
CloseTaskResponses ==
    {[ok |-> FALSE, error |-> e] : e \in StoreErrors}
    \cup {[ok |-> TRUE, error |-> ""]}

\* the answer to a request that was not made
NoResponse == [ok |-> FALSE, error |-> ""]

----------------------------------------------------------------------------
\* add_task

\* the resolution comparing the keywords without lower()
DueString_CaseSensitive(due_date) ==
    IF due_date = None \/ due_date = <<>> THEN None
    ELSE IF due_date = StrToday THEN StrToday
    ELSE IF due_date = StrTomorrow THEN StrTomorrow
    ELSE IF StrptimeOk(due_date) THEN due_date
    ELSE None

\* the due string add_task resolves due_date to
DueString(due_date) ==
    IF due_date = None \/ due_date = <<>> THEN None
    ELSE IF Lower(due_date) = StrToday THEN StrToday
    ELSE IF Lower(due_date) = StrTomorrow THEN StrTomorrow
    ELSE IF StrptimeOk(due_date) THEN due_date
    ELSE None

\* the body formatting task.due.date without the test of task.due
AddTaskBody_NoMarker(resp) ==
    IF resp.ok
    THEN Return(<<GlyphOk, " Task added: ", resp.task.content, " (Due: ">>
                \o (IF resp.task.due # NoDue THEN resp.task.due[1].date ELSE None)
                \o <<")">>)
    ELSE Raise("HTTPError", resp.error)

\* the body of the try block, given the store's answer
AddTaskBody(resp) ==
    IF resp.ok
    THEN Return(<<GlyphOk, " Task added: ", resp.task.content, " (Due: ">>
                \o (IF resp.task.due # NoDue THEN resp.task.due[1].date
                                              ELSE <<"No due date">>)
                \o <<")">>)
    ELSE Raise("HTTPError", resp.error)

AddTaskOutcome(resp) == ExceptException(AddTaskBody(resp), " Error adding task: ")

add_task(task_description, due_date, priority) ==
    /\ nextId <= MaxId
    /\ \E resp \in AddTaskResponses(task_description, DueString(due_date), priority) :
         /\ store' = IF resp.ok THEN Append(store, resp.task) ELSE store
         /\ nextId' = IF resp.ok THEN nextId + 1 ELSE nextId
         /\ requests' = <<Request("add_task", 0, task_description,
                                  DueString(due_date), priority, resp)>>
         /\ op' = [name |-> "add_task", task_description |-> task_description,
                   due_date |-> due_date, priority |-> priority, task_id |-> 0,
                   fetched |-> <<>>, task |-> resp.task,
                   outcome |-> AddTaskOutcome(resp)]
    /\ UNCHANGED listed
    /\ UNCHANGED sessionVars

----------------------------------------------------------------------------
\* list_tasks

\* the time of day of a stored date-time: datetime.split('T')[1][:5]
TimeOfDay(datetime) == Prefix(Split(datetime, "T")[2], 5)

\* the due part of a line of the listing
DuePart(task) ==
    IF task.due # NoDue
    THEN <<" (Due: ">> \o task.due[1].date
         \o (IF task.due[1].datetime # None
             THEN <<" ">> \o TimeOfDay(task.due[1].datetime)
             ELSE <<>>)
         \o <<")">>
    ELSE <<>>

\* the line of the i-th task: f"{i}. {task.content}{due_date}"
TaskLine(i, task) == <<ToString(i), ". ", task.content>> \o DuePart(task)

\* the lines numbered from 0: enumerate(tasks)
TaskList_FromZero(tasks) == [i \in 1..Len(tasks) |-> TaskLine(i - 1, tasks[i])]

\* the lines of the listing: enumerate(tasks, 1)
TaskList(tasks) == [i \in 1..Len(tasks) |-> TaskLine(i, tasks[i])]

HeaderLine == <<"[list] Your tasks:">>
NoTasksMessage == <<"No tasks found in your Todoist account.">>

ListTasksBody(resp) ==
    IF ~resp.ok THEN Raise("HTTPError", resp.error)
    ELSE IF resp.tasks = <<>> THEN Return(NoTasksMessage)
    ELSE Return(JoinLines(<<HeaderLine>> \o TaskList(resp.tasks)))

ListTasksOutcome(resp) == ExceptException(ListTasksBody(resp), " Error fetching tasks: ")

list_tasks ==
    /\ \E resp \in GetTasksResponses :
         /\ requests' = <<Request("get_tasks", 0, "", None, 0, resp)>>
         /\ op' = [name |-> "list_tasks", task_description |-> "",
                   due_date |-> None, priority |-> 0, task_id |-> 0,
                   fetched |-> resp.tasks, task |-> NoTask,
                   outcome |-> ListTasksOutcome(resp)]
         /\ listed' = IF resp.ok THEN [i \in 1..Len(resp.tasks) |-> resp.tasks[i].id] ELSE listed
    /\ UNCHANGED <<store, nextId>>
    /\ UNCHANGED sessionVars

----------------------------------------------------------------------------
\* complete_task

\* the bounds check with the upper bound excluded
ValidTaskId_StrictUpper(task_id, tasks) == 1 <= task_id /\ task_id < Len(tasks)

\* the bounds check counting from 0
ValidTaskId_FromZero(task_id, tasks) == 0 <= task_id /\ task_id <= Len(tasks)

\* 1 <= task_id <= len(tasks)
ValidTaskId(task_id, tasks) == 1 <= task_id /\ task_id <= Len(tasks)

\* the task counted from the end of the fetched list
TaskAt_FromEnd(tasks, task_id) ==
    IF 1 <= task_id /\ task_id <= Len(tasks) THEN tasks[Len(tasks) - task_id + 1]
    ELSE NoTask

\* tasks[task_id - 1]: Python's lists count from 0, and a negative index counts
\* from the end; an index outside the list raises IndexError, which the bounds
\* check of complete_task excludes
TaskAt(tasks, task_id) ==
    LET i == task_id - 1
    IN  IF 0 <= i /\ i < Len(tasks) THEN tasks[i + 1]
        ELSE IF i < 0 /\ 0 - i <= Len(tasks) THEN tasks[Len(tasks) + i + 1]
        ELSE NoTask

\* the body of the try block, given the store's answers
CompleteTaskBody(task_id, fetch, close) ==
    IF ~fetch.ok THEN Raise("HTTPError", fetch.error)
    ELSE IF ValidTaskId(task_id, fetch.tasks)
    THEN IF close.ok
         THEN Return(<<GlyphOk, " Task completed: ",
                       TaskAt(fetch.tasks, task_id).content>>)
         ELSE Raise("HTTPError", close.error)
    ELSE Return(<<GlyphFail, " Invalid task ID. Please use a number between 1 and ",
                  ToString(Len(fetch.tasks))>>)

CompleteTaskOutcome(task_id, fetch, close) ==
    ExceptException(CompleteTaskBody(task_id, fetch, close), " Error completing task: ")

\* the store requests complete_task makes
CompleteTaskRequests(task_id, fetch, close) ==
    <<Request("get_tasks", 0, "", None, 0, fetch)>>
    \o (IF fetch.ok /\ ValidTaskId(task_id, fetch.tasks)
        THEN <<Request("close_task", TaskAt(fetch.tasks, task_id).id, "", None, 0,
                       close)>>
        ELSE <<>>)

complete_task(task_id) ==
    /\ \E fetch \in GetTasksResponses :
       \E close \in (IF fetch.ok /\ ValidTaskId(task_id, fetch.tasks)
                     THEN CloseTaskResponses ELSE {NoResponse}) :
         /\ requests' = CompleteTaskRequests(task_id, fetch, close)
         /\ store' = IF close.ok
                     THEN Without(store, TaskAt(fetch.tasks, task_id).id)
                     ELSE store
         /\ op' = [name |-> "complete_task", task_description |-> "",
                   due_date |-> None, priority |-> 0, task_id |-> task_id,
                   fetched |-> fetch.tasks,
                   task |-> IF fetch.ok /\ ValidTaskId(task_id, fetch.tasks)
                            THEN TaskAt(fetch.tasks, task_id) ELSE NoTask,
                   outcome |-> CompleteTaskOutcome(task_id, fetch, close)]
    /\ UNCHANGED <<nextId, listed>>
    /\ UNCHANGED sessionVars

----------------------------------------------------------------------------
\* Other writers to the store (the Todoist apps of the same account).  A step
\* of another writer is not a task operation: op and requests describe the
\* task operation of the last step, if it was one.

NoOp == [name |-> "", task_description |-> "", due_date |-> None, priority |-> 0,
         task_id |-> 0, fetched |-> <<>>, task |-> NoTask, outcome |-> Return(<<>>)]

OtherAdds(content, due) ==
    /\ nextId <= MaxId
    /\ store' = Append(store, [id |-> nextId, content |-> content, due |-> due])
    /\ nextId' = nextId + 1
    /\ op' = NoOp
    /\ requests' = <<>>
    /\ UNCHANGED listed
    /\ UNCHANGED sessionVars

OtherCloses(i) ==
    /\ i \in 1..Len(store)
    /\ store' = Without(store, store[i].id)
    /\ op' = NoOp
    /\ requests' = <<>>
    /\ UNCHANGED <<nextId, listed>>
    /\ UNCHANGED sessionVars

\* the tasks at positions i and i + 1 change places
OtherReorders(i) ==
    /\ i \in 1..(Len(store) - 1)
    /\ store' = [store EXCEPT ![i] = store[i + 1], ![i + 1] = store[i]]
    /\ op' = NoOp
    /\ requests' = <<>>
    /\ UNCHANGED <<nextId, listed>>
    /\ UNCHANGED sessionVars

----------------------------------------------------------------------------
\* The task operations, called in any order with any arguments

SessionIdle ==
    /\ todoistKey = <<"k">> /\ geminiKey = <<"k">>
    /\ pc = "routing"
    /\ clients = {"todoist", "genai", "llm", "agent"}
    /\ llmCalls = 1
    /\ rawLine = <<>> /\ user_input = <<>>
    /\ reads = 1 /\ routerCalls = 1
    /\ printed = <<>>
    /\ exc = ""

Init ==
    /\ store = <<>>
    /\ nextId = 1
    /\ op = NoOp
    /\ requests = <<>>
    /\ listed = <<>>
    /\ SessionIdle

AddTask == \E c \in Contents, d \in DueDateArgs, p \in PriorityArgs : add_task(c, d, p)
ListTasks == list_tasks
CompleteTask == \E k \in TaskIdArgs : complete_task(k)
OtherWriter ==
    \/ \E c \in OtherContents, d \in Dues : OtherAdds(c, d)
    \/ \E i \in 1..MaxId : OtherCloses(i)
    \/ \E i \in 1..MaxId : OtherReorders(i)

Next == AddTask \/ ListTasks \/ CompleteTask \/ OtherWriter

Spec == Init /\ [][Next]_vars

\* add_task alone, called with every due date of RawDates
AddTaskAnyDate ==
    \E c \in Contents, d \in RawDates, p \in PriorityArgs : add_task(c, d, p)

AddSpec == Init /\ [][AddTaskAnyDate]_vars

----------------------------------------------------------------------------
\* Start-up: the module-level code that runs before main()

\* the number of times main() calls input() in a run
MaxReads == 3

\* what os.getenv gives for a key: None, the empty string, a key
KeyValues == {None, <<>>, <<"k">>}

\* not Config.TODOIST_API_KEY or not Config.GEMINI_API_KEY
Falsy(v) == v = None \/ v = <<>>

\* the test with "and" in the place of "or"
KeysMissing_BothOnly == Falsy(todoistKey) /\ Falsy(geminiKey)

KeysMissing == Falsy(todoistKey) \/ Falsy(geminiKey)

\* the clients in the order the code constructs them
ClientOrder == <<"todoist", "genai", "llm">>

\* if not ... : raise ValueError(...)
ValidateConfiguration ==
    /\ pc = "validate"
    /\ IF KeysMissing
       THEN /\ pc' = "aborted"
            /\ printed' = <<"ValueError: ",
                 "Missing required API keys in .env file. Please check your configuration.">>
       ELSE /\ pc' = "init_apis"
            /\ UNCHANGED printed
    /\ UNCHANGED <<todoistKey, geminiKey, clients, llmCalls, rawLine, user_input,
                   reads, routerCalls, exc>>
    /\ UNCHANGED opVars

\* the outer try block: the three constructors, the first n of which return
InitializeApis ==
    /\ pc = "init_apis"
    /\ \E n \in 0..Len(ClientOrder) :
         /\ clients' = {ClientOrder[i] : i \in 1..n}
         /\ IF n = Len(ClientOrder)
            THEN /\ pc' = "test_connection"
                 /\ printed' = <<"Using model: ", "gemini-2.5-flash">>
            ELSE /\ pc' = "aborted"
                 /\ printed' = <<"RuntimeError: ", "Failed to initialize APIs: ",
                                 "constructor failed">>
    /\ UNCHANGED <<todoistKey, geminiKey, llmCalls, rawLine, user_input, reads,
                   routerCalls, exc>>
    /\ UNCHANGED opVars

\* the inner try block: llm.invoke("Test connection"), a failure is a warning
TestConnection ==
    /\ pc = "test_connection"
    /\ llmCalls' = llmCalls + 1
    /\ \E ok \in BOOLEAN :
         printed' = IF ok THEN printed
                    ELSE <<"   Error details: ", "connection refused">>
    /\ pc' = "build_agent"
    /\ UNCHANGED <<todoistKey, geminiKey, clients, rawLine, user_input, reads,
                   routerCalls, exc>>
    /\ UNCHANGED opVars

\* the agent is built and main() prints its welcome
BuildAgent ==
    /\ pc = "build_agent"
    /\ clients' = clients \cup {"agent"}
    /\ pc' = "awaiting"
    /\ printed' = <<"You can ask me to add tasks, list tasks, or ask general questions.">>
    /\ UNCHANGED <<todoistKey, geminiKey, llmCalls, rawLine, user_input, reads,
                   routerCalls, exc>>
    /\ UNCHANGED opVars

----------------------------------------------------------------------------
\* main(): the loop

\* the lines input() returns
LineEmpty == <<>>
LineBlank == <<" ", " ">>
LineExit == <<"e","x","i","t">>
LineEXIT == <<"E","X","I","T">>
LineQuitPadded == <<" ","Q","u","i","t"," ">>
LineBye == <<"b","y","e">>
LineList == <<"l","i","s","t">>
LineExits == <<"e","x","i","t","s">>
InputLines == {LineEmpty, LineBlank, LineExit, LineEXIT, LineQuitPadded, LineBye,
               LineList, LineExits}

\* what the router answers
RouterOutputs == {"You have no tasks."}

\* ['exit', 'quit', 'bye']
ExitKeywords == {StrExit, StrQuit, StrBye}

\* the loop with "except Exception" leaving the loop as well
ExceptInLoop_AlwaysBreak(cls, text) ==
    IF cls = "KeyboardInterrupt"
    THEN [pc |-> "terminated", printed |-> <<"[wave] Operation cancelled by user.">>]
    ELSE [pc |-> "terminated", printed |-> <<GlyphFail, " An error occurred: ", text>>]

\* the two except clauses of the loop: the state after an exception of class cls
ExceptInLoop(cls, text) ==
    IF cls = "KeyboardInterrupt"
    THEN [pc |-> "terminated", printed |-> <<"[wave] Operation cancelled by user.">>]
    ELSE IF cls \in ExceptionClasses
    THEN [pc |-> "awaiting", printed |-> <<GlyphFail, " An error occurred: ", text>>]
    ELSE [pc |-> "crashed", printed |-> <<cls, ": ", text>>]

\* the loop comparing the keywords without lower()
AfterLine_CaseSensitive(line) ==
    IF line \in ExitKeywords THEN "terminated"
    ELSE IF line = <<>> THEN "awaiting"
    ELSE "routing"

\* what the loop does with the stripped line: leave, read again, or route
AfterLine(line) ==
    IF Lower(line) \in ExitKeywords THEN "terminated"
    ELSE IF line = <<>> THEN "awaiting"
    ELSE "routing"

\* input() returns a line
ReadInput ==
    /\ pc = "awaiting"
    /\ reads < MaxReads
    /\ \E line \in InputLines :
         /\ rawLine' = line
         /\ user_input' = Strip(line)
         /\ pc' = AfterLine(Strip(line))
         /\ routerCalls' = IF AfterLine(Strip(line)) = "routing"
                           THEN routerCalls + 1 ELSE routerCalls
         /\ printed' = IF AfterLine(Strip(line)) = "terminated"
                       THEN <<"[wave] Goodbye!">> ELSE printed
    /\ reads' = reads + 1
    /\ exc' = ""
    /\ UNCHANGED <<todoistKey, geminiKey, clients, llmCalls>>
    /\ UNCHANGED opVars

\* input() raises: Ctrl-C, or the end of the standard input
InputRaises ==
    /\ pc = "awaiting"
    /\ reads < MaxReads
    /\ \E cls \in {"KeyboardInterrupt", "EOFError"} :
         /\ exc' = cls
         /\ pc' = ExceptInLoop(cls, "EOF when reading a line").pc
         /\ printed' = ExceptInLoop(cls, "EOF when reading a line").printed
    /\ reads' = reads + 1
    /\ rawLine' = None
    /\ UNCHANGED <<todoistKey, geminiKey, clients, llmCalls, user_input, routerCalls>>
    /\ UNCHANGED opVars

\* agent_executor.invoke returns, and the result is printed
RouterReturns ==
    /\ pc = "routing"
    /\ \E out \in RouterOutputs : printed' = <<"[robot] ", out>>
    /\ pc' = "awaiting"
    /\ exc' = ""
    /\ UNCHANGED <<todoistKey, geminiKey, clients, llmCalls, rawLine, user_input,
                   reads, routerCalls>>
    /\ UNCHANGED opVars

\* agent_executor.invoke raises: Ctrl-C, or an error of the router
RouterRaises ==
    /\ pc = "routing"
    /\ \E cls \in {"KeyboardInterrupt", "Exception"} :
         /\ exc' = cls
         /\ pc' = ExceptInLoop(cls, "router failed").pc
         /\ printed' = ExceptInLoop(cls, "router failed").printed
    /\ UNCHANGED <<todoistKey, geminiKey, clients, llmCalls, rawLine, user_input,
                   reads, routerCalls>>
    /\ UNCHANGED opVars

SessionInit ==
    /\ store = <<>>
    /\ nextId = 1
    /\ op = NoOp
    /\ requests = <<>>
    /\ listed = <<>>
    /\ todoistKey \in KeyValues
    /\ geminiKey \in KeyValues
    /\ pc = "validate"
    /\ clients = {}
    /\ llmCalls = 0
    /\ rawLine = <<>>
    /\ user_input = <<>>
    /\ reads = 0
    /\ routerCalls = 0
    /\ printed = <<>>
    /\ exc = ""

SessionNext ==
    \/ ValidateConfiguration
    \/ InitializeApis
    \/ TestConnection
    \/ BuildAgent
    \/ ReadInput
    \/ InputRaises
    \/ RouterReturns
    \/ RouterRaises

SessionSpec == SessionInit /\ [][SessionNext]_vars

----------------------------------------------------------------------------
\* Properties of the task operations (under Spec)

\* the last step was a call of the operation `name`
Called(name) == op.name = name

\* the fetch of the last operation succeeded; op.fetched is what it returned
Fetched == requests # <<>> /\ requests[1].call = "get_tasks" /\ requests[1].ok

\* the close requests of the last operation
CloseRequests == {i \in DOMAIN requests : requests[i].call = "close_task"}

\* the requests of the last operation that failed
FailedRequests == {i \in DOMAIN requests : ~requests[i].ok}

\* the last operation returned the string `value`
Returned(value) == ~op.outcome.raised /\ op.outcome.value = value

\* the identifiers of a sequence of tasks
Ids(tasks) == [i \in DOMAIN tasks |-> tasks[i].id]

\* C1: when complete_task fetches n >= 1 tasks and 1 <= task_id <= n, it issues
\* exactly one close request, for the store identifier of the task at position
\* task_id of the fetched sequence, and when the close succeeds it returns the
\* success string naming that task's content.
C1_CompleteClosesFetchedPosition ==
    (Called("complete_task") /\ Fetched
       /\ Len(op.fetched) >= 1 /\ 1 <= op.task_id /\ op.task_id <= Len(op.fetched))
    => /\ Cardinality(CloseRequests) = 1
       /\ \A i \in CloseRequests :
            /\ requests[i].id = op.fetched[op.task_id].id
            /\ requests[i].ok =>
                 Returned(<<GlyphOk, " Task completed: ",
                            op.fetched[op.task_id].content>>)

C1_Witness ==
    /\ Called("complete_task") /\ Fetched
    /\ Len(op.fetched) = 2 /\ op.task_id = 2
    /\ op.fetched[1].content # op.fetched[2].content
    /\ Len(requests) = 2 /\ requests[2].ok /\ requests[2].id = op.fetched[2].id
    /\ Returned(<<GlyphOk, " Task completed: ", op.fetched[2].content>>)
    /\ store = <<op.fetched[1]>>

\* C2: when complete_task fetches n >= 0 tasks and task_id < 1 or task_id > n,
\* it returns the failure string that states the range 1 to n, issues no close
\* request, and leaves the store's tasks as they were fetched.
C2_CompleteRejectsOutOfRange ==
    (Called("complete_task") /\ Fetched
       /\ (op.task_id < 1 \/ op.task_id > Len(op.fetched)))
    => /\ Returned(<<GlyphFail, " Invalid task ID. Please use a number between 1 and ",
                     ToString(Len(op.fetched))>>)
       /\ CloseRequests = {}
       /\ store = op.fetched

C2_Witness ==
    /\ Called("complete_task") /\ Fetched
    /\ Len(op.fetched) = 2 /\ op.task_id = 0
    /\ Returned(<<GlyphFail, " Invalid task ID. Please use a number between 1 and ", "2">>)
    /\ Len(requests) = 1
    /\ store = op.fetched

\* C3: whenever a store request of add_task, list_tasks or complete_task fails,
\* the operation returns (it does not raise) a string that starts with the
\* failure glyph and embeds the text of the error.
C3_StoreErrorsBecomeFailureStrings ==
    (op.name \in {"add_task", "list_tasks", "complete_task"} /\ FailedRequests # {})
    => /\ ~op.outcome.raised
       /\ op.outcome.value # <<>>
       /\ Head(op.outcome.value) = GlyphFail
       /\ \A i \in FailedRequests :
            \E j \in DOMAIN op.outcome.value : op.outcome.value[j] = requests[i].error

C3_Witness ==
    /\ Called("complete_task")
    /\ Len(requests) = 2 /\ requests[1].ok /\ ~requests[2].ok
    /\ Returned(<<GlyphFail, " Error completing task: ", requests[2].error>>)
    /\ store = op.fetched

\* C4: complete_task(k) resolves k against its own fetch and not against the
\* listing the user saw: the task it closes is the k-th of its fetch, which is
\* the k-th of the last listing when the fetch equals that listing, and may be
\* another task when the store changed in between (the witness).
C4_CompleteResolvesAgainstOwnFetch ==
    (Called("complete_task") /\ CloseRequests # {})
    => \A i \in CloseRequests :
         /\ op.task_id \in DOMAIN op.fetched
         /\ requests[i].id = op.fetched[op.task_id].id
         /\ Ids(op.fetched) = listed => requests[i].id = listed[op.task_id]

C4_Witness ==
    /\ Called("complete_task") /\ Fetched
    /\ Len(requests) = 2 /\ requests[2].call = "close_task" /\ requests[2].ok
    /\ op.task_id \in DOMAIN listed
    /\ listed[op.task_id] # requests[2].id
    /\ \E i \in DOMAIN store : store[i].id = listed[op.task_id]

\* the lines of a string: str.split("\n")
Lines(value) == Split(value, "\n")

\* C7: list_tasks, when its fetch returns n tasks, returns the no-tasks message
\* (not a failure string) for n = 0, and otherwise a header line and exactly n
\* lines, line i numbered i and showing the content of the i-th fetched task; it
\* makes no create or close request and leaves the store as fetched.
C7_ListNumbersFetchOrder ==
    (Called("list_tasks") /\ Fetched)
    => /\ ~op.outcome.raised
       /\ Len(op.fetched) = 0 =>
            /\ op.outcome.value = <<"No tasks found in your Todoist account.">>
            /\ Head(op.outcome.value) # GlyphFail
       /\ Len(op.fetched) > 0 =>
            /\ Len(Lines(op.outcome.value)) = Len(op.fetched) + 1
            /\ Lines(op.outcome.value)[1] = <<"[list] Your tasks:">>
            /\ \A i \in DOMAIN op.fetched :
                 /\ Len(Lines(op.outcome.value)[i + 1]) >= 3
                 /\ SubSeq(Lines(op.outcome.value)[i + 1], 1, 3)
                      = <<ToString(i), ". ", op.fetched[i].content>>
       /\ \A i \in DOMAIN requests : requests[i].call = "get_tasks"
       /\ Len(requests) = 1
       /\ store = op.fetched

C7_Witness ==
    /\ Called("list_tasks") /\ Fetched
    /\ Len(op.fetched) = 2
    /\ op.fetched[1].content # op.fetched[2].content
    /\ op.fetched[1].id > op.fetched[2].id
    /\ Len(Lines(op.outcome.value)) = 3
    /\ SubSeq(Lines(op.outcome.value)[3], 1, 3) = <<"2", ". ", op.fetched[2].content>>

----------------------------------------------------------------------------
\* Properties of add_task (under AddSpec)

\* the upper-case letter of a lower-case letter
UpperOf(c) ==
    IF \E i \in DOMAIN LowerAlpha : LowerAlpha[i] = c
    THEN UpperAlpha[CHOOSE i \in DOMAIN LowerAlpha : LowerAlpha[i] = c]
    ELSE c

\* s is the keyword kw, the case of the letters set aside
SameIgnoringCase(s, kw) ==
    /\ Len(s) = Len(kw)
    /\ \A i \in DOMAIN kw : s[i] = kw[i] \/ s[i] = UpperOf(kw[i])

\* the ways of writing a number in a numeric date
OneDigit(n) == <<Digits[n + 1]>>
TwoDigits(n) == <<Digits[(n \div 10) + 1], Digits[(n % 10) + 1]>>
FourDigits(n) == TwoDigits(n \div 100) \o TwoDigits(n % 100)
DayWritings(d) ==
    {TwoDigits(d)} \cup (IF d < 10 THEN {OneDigit(d), <<" ">> \o OneDigit(d)} ELSE {})
MonthWritings(m) ==
    {TwoDigits(m)} \cup (IF m < 10 THEN {OneDigit(m)} ELSE {})

\* the calendar: the lengths of the months of year y
MonthLengths(y) ==
    <<31, IF y % 400 = 0 \/ (y % 4 = 0 /\ y % 100 # 0) THEN 29 ELSE 28,
      31, 30, 31, 30, 31, 31, 30, 31, 30, 31>>

\* the years of the dates in RawDates
CalendarYears == {1, 1900, 2000, 2024, 2025}

\* every day-month-year numeric writing of every day of those years
DayMonthYearDates ==
    UNION {UNION {UNION {{dw \o <<"-">> \o mw \o <<"-">> \o FourDigits(y) :
                            dw \in DayWritings(d), mw \in MonthWritings(m)} :
                         d \in 1..MonthLengths(y)[m]} :
                  m \in 1..12} :
           y \in CalendarYears}

\* the token the Date Normalizer is to give for a raw due date
ExpectedToken(raw) ==
    IF raw = None THEN None
    ELSE IF SameIgnoringCase(raw, <<"t","o","d","a","y">>) THEN <<"t","o","d","a","y">>
    ELSE IF SameIgnoringCase(raw, <<"t","o","m","o","r","r","o","w">>)
         THEN <<"t","o","m","o","r","r","o","w">>
    ELSE IF raw \in DayMonthYearDates THEN raw
    ELSE None

\* C5: the due-date resolution of add_task is total: absent gives absent, "today"
\* and "tomorrow" in any case give the keyword, a day-month-year numeric date is
\* passed unchanged, every other input gives absent; add_task does not raise, and
\* the task is submitted to the store with the resolved token.
C5_DueDateResolved ==
    Called("add_task")
    => /\ ~op.outcome.raised
       /\ Len(requests) = 1
       /\ requests[1].call = "add_task"
       /\ requests[1].content = op.task_description
       /\ requests[1].due_string = ExpectedToken(op.due_date)

C5_Witness ==
    /\ Called("add_task")
    /\ op.due_date = DateNoLeapDay
    /\ Len(requests) = 1 /\ requests[1].ok
    /\ requests[1].due_string = None
    /\ store # <<>> /\ store[Len(store)].due = NoDue

\* the pieces of value hold the characters of token, in a row
Contains(value, token) ==
    \E i \in 1..(Len(value) - Len(token) + 1) :
        SubSeq(value, i, i + Len(token) - 1) = token

\* C6 as claimed: on store success add_task returns a success string embedding
\* the stored content and the resolved due date (the token sent to the store), or
\* the no-due-date marker when that token is absent; create("Buy milk", "today", 1)
\* yields a string containing "Buy milk" and "today".
C6_SuccessEmbedsResolvedToken ==
    (Called("add_task") /\ requests[1].ok)
    => /\ ~op.outcome.raised
       /\ Head(op.outcome.value) = GlyphOk
       /\ Contains(op.outcome.value, <<op.task_description>>)
       /\ IF requests[1].due_string = None
          THEN Contains(op.outcome.value, <<"No due date">>)
          ELSE Contains(op.outcome.value, requests[1].due_string)

\* C6 as amended: on store success add_task returns the success string embedding
\* the content of the task the store created and that task's due date as the
\* store reports it (task.due.date), or the marker "No due date" when the task
\* has no due date, which is so when the resolved due date is absent.
C6_SuccessEmbedsStoredDue ==
    (Called("add_task") /\ requests[1].ok)
    => /\ store # <<>>
       /\ store[Len(store)].id = op.task.id
       /\ store[Len(store)].content = op.task_description
       /\ requests[1].due_string = None => store[Len(store)].due = NoDue
       /\ Returned(<<GlyphOk, " Task added: ", store[Len(store)].content, " (Due: ">>
                   \o (IF store[Len(store)].due = NoDue
                       THEN <<"No due date">>
                       ELSE store[Len(store)].due[1].date)
                   \o <<")">>)

C6_Witness ==
    /\ Called("add_task") /\ requests[1].ok
    /\ op.task_description = "Buy milk" /\ op.due_date = DateToday /\ op.priority = 1
    /\ Contains(op.outcome.value, <<"Buy milk">>)
    /\ Contains(op.outcome.value, store[Len(store)].due[1].date)
    /\ ~Contains(op.outcome.value, <<"t","o","d","a","y">>)

----------------------------------------------------------------------------
\* Properties of the start-up and of the loop (under SessionSpec)

\* C9: when a required key is missing the program aborts at the validation:
\* no client is constructed, no store or LLM request is made, and the loop never
\* waits for input.
C9_MissingKeyAbortsStartup ==
    (Falsy(todoistKey) \/ Falsy(geminiKey))
    => /\ pc \in {"validate", "aborted"}
       /\ clients = {}
       /\ llmCalls = 0
       /\ requests = <<>>
       /\ reads = 0 /\ routerCalls = 0

C9_Witness ==
    /\ pc = "aborted"
    /\ todoistKey = <<"k">> /\ geminiKey = <<>>
    /\ clients = {} /\ llmCalls = 0 /\ reads = 0

\* a step in which input() returned a line
ReadsLine == reads' = reads + 1 /\ rawLine' # None

\* C8 as claimed: the line as read decides: an exit keyword in any case ends
\* the loop without a call of the router, the empty line waits again without
\* one, and every other line calls the router once and then waits again (a
\* keyboard interrupt during the routing set aside).
C8_LineAsReadDecides ==
    [][/\ ReadsLine =>
            IF Lower(rawLine') \in {<<"e","x","i","t">>, <<"q","u","i","t">>, <<"b","y","e">>}
            THEN pc' = "terminated" /\ routerCalls' = routerCalls
            ELSE IF rawLine' = <<>>
            THEN pc' = "awaiting" /\ routerCalls' = routerCalls
            ELSE pc' = "routing" /\ routerCalls' = routerCalls + 1
       /\ pc = "routing" =>
            /\ routerCalls' = routerCalls
            /\ reads' = reads
            /\ IF exc' = "KeyboardInterrupt" THEN pc' = "terminated"
                                             ELSE pc' = "awaiting"]_vars

\* C8 as amended: the line with its leading and trailing whitespace stripped
\* decides: an exit keyword in any case ends the loop without a call of the
\* router, the empty line waits again without one, and every other line calls
\* the router once; the loop then waits again, unless a keyboard interrupt
\* arrives during the routing, which ends the loop.
C8_StrippedLineDecides ==
    [][/\ ReadsLine =>
            IF Lower(Strip(rawLine')) \in {<<"e","x","i","t">>, <<"q","u","i","t">>, <<"b","y","e">>}
            THEN pc' = "terminated" /\ routerCalls' = routerCalls
            ELSE IF Strip(rawLine') = <<>>
            THEN pc' = "awaiting" /\ routerCalls' = routerCalls
            ELSE pc' = "routing" /\ routerCalls' = routerCalls + 1
       /\ pc = "routing" =>
            /\ routerCalls' = routerCalls
            /\ reads' = reads
            /\ IF exc' = "KeyboardInterrupt" THEN pc' = "terminated"
                                             ELSE pc' = "awaiting"]_vars

C8_Witness ==
    /\ pc = "awaiting"
    /\ rawLine = <<" ", " ">>
    /\ user_input = <<>>
    /\ reads = 1 /\ routerCalls = 0

\* C10: the loop ends only on an exit keyword or a keyboard interrupt: an
\* error of the router is caught, the loop waits again and the turn is not
\* retried; a keyboard interrupt, while reading or while routing, ends the loop;
\* and once the loop has ended nothing is read and the router is not called.
C10_LoopEndsOnlyOnExitOrInterrupt ==
    /\ [][/\ (pc # "terminated" /\ pc' = "terminated") =>
               \/ exc' = "KeyboardInterrupt"
               \/ /\ ReadsLine
                  /\ Lower(Strip(rawLine')) \in
                       {<<"e","x","i","t">>, <<"q","u","i","t">>, <<"b","y","e">>}
          /\ (pc = "routing" /\ exc' \notin {"", "KeyboardInterrupt"}) =>
               pc' = "awaiting" /\ routerCalls' = routerCalls /\ reads' = reads
          /\ (pc \in {"awaiting", "routing"} /\ exc' = "KeyboardInterrupt") =>
               pc' = "terminated"
          /\ pc = "terminated" =>
               pc' = "terminated" /\ reads' = reads /\ routerCalls' = routerCalls]_vars
    /\ [](pc = "terminated" => ~ENABLED SessionNext)

C10_Witness ==
    /\ pc = "awaiting"
    /\ exc = "Exception"
    /\ routerCalls = 1 /\ reads = 1
    /\ printed = <<GlyphFail, " An error occurred: ", "router failed">>

====
